---- MODULE Spec2Model ----
(***************************************************************************)
(* The two-factor login protocol of the Nexora backend: POST /login,       *)
(* POST /verify-otp and POST /resend-otp over the persisted User document. *)
(* The repository holds three versions of the router; `router` says which  *)
(* one serves the requests of a behaviour:                                 *)
(*   "part_006"     src/unnamed/part_006  (lockout and expiry clear the    *)
(*                  code; NoActiveCode and Expired are separate answers)   *)
(*   "part_007"     src/unnamed/part_007  (lockout and expiry answer       *)
(*                  without writing; one answer for no-code and expired)   *)
(*   "authLogin2FA" src/routes/authLogin2FARoutes.js (no attempt counter,  *)
(*                  no resend, match checked before expiry)                *)
(* Time is counted in minutes.  user.save() persists the paths the handler *)
(* assigned; User.updateOne persists the fields it names.                  *)
(***************************************************************************)
EXTENDS Integers, Sequences, FiniteSets, Bags, TLC

VARIABLES router, role, now, users, issuedBy, run, lastOk, minted, resp, reqs,
          content, projects, messages, cached, milestones

vars == <<router, role, now, users, issuedBy, run, lastOk, minted, resp, reqs,
          content, projects, messages, cached, milestones>>

(* ------------------------------ constants ------------------------------ *)

OTP_EXPIRY_MINUTES == 5

MAX_OTP_ATTEMPTS == 5

\* The clock runs from 0 to MaxTime minutes.
MaxTime == 6

\* Math.random() is sampled at k / NumRandom, k = 0 .. NumRandom - 1.
NumRandom == 2

\* Requests in flight at once in the interleaved specification.
MaxInFlight == 2

Routers == {"part_006", "part_007", "authLogin2FA"}

\* The content collections behind the CRUD routes.
Collections == {"team", "services", "posts", "projects", "tags", "partners",
                "milestones", "stories", "certificates"}

Accounts == {"admin@nexora"}

Usernames == Accounts \cup {"ghost@nexora"}

Passwords == {"rightpw", "wrongpw"}

Roles == {"admin", "user"}

(* ------------------------------- helpers ------------------------------- *)

\* null / undefined of a String path and of a Date path.
NullCode == <<>>

NullDate == -1

Pow10(k) == IF k = 0 THEN 1 ELSE IF k = 1 THEN 10 ELSE IF k = 2 THEN 100
            ELSE IF k = 3 THEN 1000 ELSE IF k = 4 THEN 10000 ELSE 100000

\* Number.prototype.toString of a 6-digit integer: its decimal digits.
toString(n) == [i \in 1..6 |-> (n \div Pow10(6 - i)) % 10]

\* Mutant of generateOtp: the draw is not offset by 100000.
generateOtp_FromZero(k) == toString((k * 1000000) \div NumRandom)

\* Math.floor(100000 + Math.random() * 900000).toString() with
\* Math.random() = k / NumRandom.
generateOtp(k) == toString(100000 + ((k * 900000) \div NumRandom))

RandomDraws == 0 .. (NumRandom - 1)

\* The otp_code values a client submits: every code the server can issue,
\* "000000", and a 5-character string the validator rejects.
OtpInputs == {generateOtp(k) : k \in RandomDraws}
               \cup {<<0, 0, 0, 0, 0, 0>>, <<1, 2, 3, 4, 5>>}

\* check('otp_code', ...).isLength({ min: 6, max: 6 })
IsLength6(s) == Len(s) = 6

\* bcrypt.hash / bcrypt.compare
Hash(p) == <<"bcrypt", p>>

Compare(p, h) == Hash(p) = h

\* Mutant of DateBefore: the expiry instant itself counts as expired.
DateBefore_Inclusive(d, t) == IF d = NullDate THEN TRUE ELSE d <= t

\* date < new Date(): null coerces to 0, which lies before every current time.
DateBefore(d, t) == IF d = NullDate THEN TRUE ELSE d < t

\* !user.otpCode and !user.otpExpiresAt
Falsy(code) == code = NullCode

NoDate(d) == d = NullDate

\* The OTP paths of the User schema.
OtpPaths == {"otpCode", "otpExpiresAt", "otpAttempts"}

\* A User document as created by /register: no OTP issued yet.
UserSchema(r) ==
  [password |-> Hash("rightpw"), role |-> r,
   otpCode |-> NullCode, otpExpiresAt |-> NullDate, otpAttempts |-> 0]

\* user.save() / User.updateOne: the stored document takes the local
\* document's value on every path in `paths` and keeps the rest.
Persist(stored, local, paths) ==
  [password |-> stored.password, role |-> stored.role,
   otpCode |-> IF "otpCode" \in paths THEN local.otpCode ELSE stored.otpCode,
   otpExpiresAt |-> IF "otpExpiresAt" \in paths THEN local.otpExpiresAt
                    ELSE stored.otpExpiresAt,
   otpAttempts |-> IF "otpAttempts" \in paths THEN local.otpAttempts
                   ELSE stored.otpAttempts]

\* What a handler decided after User.findOne: the answer it will give, the
\* local document after its assignments and the paths it persists first.
Decision(status, msg, token, doc, paths) ==
  [status |-> status, msg |-> msg, token |-> token, doc |-> doc, paths |-> paths]

\* Mutant of Cleared: only otpCode is reset.
Cleared_CodeOnly(user) == [user EXCEPT !.otpCode = NullCode]

Cleared(user) == [user EXCEPT !.otpCode = NullCode, !.otpExpiresAt = NullDate]

(* ----------------------------- /verify-otp ----------------------------- *)

\* Mutant of VerifyOtp_part_006: the lockout test is > instead of >=.
VerifyOtp_part_006_OffByOne(user, otp_code, t) ==
  IF user.otpAttempts > MAX_OTP_ATTEMPTS
  THEN Decision(429, "LockedOut", FALSE, Cleared(user), {"otpCode", "otpExpiresAt"})
  ELSE IF Falsy(user.otpCode) \/ NoDate(user.otpExpiresAt)
  THEN Decision(401, "NoActiveCode", FALSE, user, {})
  ELSE IF DateBefore(user.otpExpiresAt, t)
  THEN Decision(401, "Expired", FALSE, Cleared(user), {"otpCode", "otpExpiresAt"})
  ELSE IF user.otpCode # otp_code
  THEN Decision(401, "Mismatch", FALSE,
                [user EXCEPT !.otpAttempts = @ + 1], {"otpAttempts"})
  ELSE Decision(200, "Success", TRUE,
                [Cleared(user) EXCEPT !.otpAttempts = 0], OtpPaths)

\* Mutant of VerifyOtp_part_006: a wrong code burns the stored code.
VerifyOtp_part_006_BurnsCode(user, otp_code, t) ==
  IF user.otpAttempts >= MAX_OTP_ATTEMPTS
  THEN Decision(429, "LockedOut", FALSE, Cleared(user), {"otpCode", "otpExpiresAt"})
  ELSE IF Falsy(user.otpCode) \/ NoDate(user.otpExpiresAt)
  THEN Decision(401, "NoActiveCode", FALSE, user, {})
  ELSE IF DateBefore(user.otpExpiresAt, t)
  THEN Decision(401, "Expired", FALSE, Cleared(user), {"otpCode", "otpExpiresAt"})
  ELSE IF user.otpCode # otp_code
  THEN Decision(401, "Mismatch", FALSE,
                [Cleared(user) EXCEPT !.otpAttempts = @ + 1], OtpPaths)
  ELSE Decision(200, "Success", TRUE,
                [Cleared(user) EXCEPT !.otpAttempts = 0], OtpPaths)

\* part_006: lockout, no active code, expiry, mismatch, success, in that order.
VerifyOtp_part_006(user, otp_code, t) ==
  IF user.otpAttempts >= MAX_OTP_ATTEMPTS
  THEN Decision(429, "LockedOut", FALSE, Cleared(user), {"otpCode", "otpExpiresAt"})
  ELSE IF Falsy(user.otpCode) \/ NoDate(user.otpExpiresAt)
  THEN Decision(401, "NoActiveCode", FALSE, user, {})
  ELSE IF DateBefore(user.otpExpiresAt, t)
  THEN Decision(401, "Expired", FALSE, Cleared(user), {"otpCode", "otpExpiresAt"})
  ELSE IF user.otpCode # otp_code
  THEN Decision(401, "Mismatch", FALSE,
                [user EXCEPT !.otpAttempts = @ + 1], {"otpAttempts"})
  ELSE Decision(200, "Success", TRUE,
                [Cleared(user) EXCEPT !.otpAttempts = 0], OtpPaths)

\* part_007: 'Too many attempts' and 'OTP expired' answer without saving.
VerifyOtp_part_007(user, otp_code, t) ==
  IF user.otpAttempts >= MAX_OTP_ATTEMPTS
  THEN Decision(429, "LockedOut", FALSE, user, {})
  ELSE IF Falsy(user.otpCode) \/ DateBefore(user.otpExpiresAt, t)
  THEN Decision(401, "Expired", FALSE, user, {})
  ELSE IF user.otpCode # otp_code
  THEN Decision(401, "Mismatch", FALSE,
                [user EXCEPT !.otpAttempts = @ + 1], {"otpAttempts"})
  ELSE Decision(200, "Success", TRUE,
                [Cleared(user) EXCEPT !.otpAttempts = 0], OtpPaths)

\* authLogin2FARoutes.js: match first, then expiry; updateOne names
\* otpCode and otpExpiresAt only.
VerifyOtp_authLogin2FA(user, otp_code, t) ==
  IF user.otpCode # otp_code
  THEN Decision(401, "Mismatch", FALSE, user, {})
  ELSE IF DateBefore(user.otpExpiresAt, t)
  THEN Decision(401, "Expired", FALSE, Cleared(user), {"otpCode", "otpExpiresAt"})
  ELSE Decision(200, "Success", TRUE, Cleared(user), {"otpCode", "otpExpiresAt"})

VerifyOtpDecide(rt, user, otp_code, t) ==
  IF rt = "part_006" THEN VerifyOtp_part_006(user, otp_code, t)
  ELSE IF rt = "part_007" THEN VerifyOtp_part_007(user, otp_code, t)
  ELSE VerifyOtp_authLogin2FA(user, otp_code, t)

(* ------------------------- /login, /resend-otp ------------------------- *)

\* Mutant of IssueOtp: the save leaves otpAttempts as it was.
IssueOtp_KeepsAttempts(rt, user, k, t) ==
  Decision(200, "OtpSent", FALSE,
           [user EXCEPT !.otpCode = generateOtp(k),
                        !.otpExpiresAt = t + OTP_EXPIRY_MINUTES],
           {"otpCode", "otpExpiresAt"})

\* The tail shared by /login and /resend-otp: a fresh code, its expiry and,
\* in part_006 and part_007, otpAttempts = 0, persisted with one save.
IssueOtp(rt, user, k, t) ==
  IF rt = "authLogin2FA"
  THEN Decision(200, "OtpSent", FALSE,
                [user EXCEPT !.otpCode = generateOtp(k),
                             !.otpExpiresAt = t + OTP_EXPIRY_MINUTES],
                {"otpCode", "otpExpiresAt"})
  ELSE Decision(200, "OtpSent", FALSE,
                [user EXCEPT !.otpCode = generateOtp(k),
                             !.otpExpiresAt = t + OTP_EXPIRY_MINUTES,
                             !.otpAttempts = 0],
                OtpPaths)

\* /login after findOne found `user`: password check, then the OTP tail.
LoginDecide(rt, user, password, k, t) ==
  IF ~Compare(password, user.password)
  THEN Decision(400, "InvalidCredentials", FALSE, user, {})
  ELSE IssueOtp(rt, user, k, t)

\* /resend-otp after findOne found `user`; authLogin2FARoutes.js has no
\* such route.
ResendDecide(rt, user, k, t) ==
  IF rt = "authLogin2FA"
  THEN Decision(404, "NoRoute", FALSE, user, {})
  ELSE IssueOtp(rt, user, k, t)

\* Mutant of NotFoundDecide: /login tells an unknown identifier apart.
NotFoundDecide_TellsApart(rt, op, user) ==
  IF op = "resend" /\ rt = "authLogin2FA"
  THEN Decision(404, "NoRoute", FALSE, user, {})
  ELSE Decision(400, "NotFound", FALSE, user, {})

\* The answer when findOne returns null.
NotFoundDecide(rt, op, user) ==
  IF op = "resend" /\ rt = "authLogin2FA"
  THEN Decision(404, "NoRoute", FALSE, user, {})
  ELSE IF op = "login"
  THEN Decision(400, "InvalidCredentials", FALSE, user, {})
  ELSE Decision(400, "NotFound", FALSE, user, {})

\* transporter.sendMail is awaited inside the try block in part_006 and
\* part_007 and given a logging callback in authLogin2FARoutes.js.
MailAwaited(rt) == rt # "authLogin2FA"

\* Faults of the collaborators: the store (findOne, save), the mail
\* transport and jwt.sign.
Faults == {"none", "find", "save", "mail", "sign"}

\* A fault happens at a step the handler executes.
Applicable(d, fault) ==
  \/ fault \in {"none", "find"}
  \/ fault = "save" /\ d.paths # {}
  \/ fault = "mail" /\ d.msg = "OtpSent"
  \/ fault = "sign" /\ d.token

\* Whether the handler's save reaches the store.
Saved(d, fault) == d.paths # {} /\ fault \notin {"find", "save"}

\* The response that leaves the handler: the decision's, unless a step on
\* the way throws into the catch block (500).  In authLogin2FARoutes.js a
\* jwt.sign error is rethrown inside the callback and nothing is sent.
Respond(rt, d, fault) ==
  IF fault = "find" \/ (fault = "save" /\ d.paths # {})
  THEN [status |-> 500, msg |-> "ServerError", token |-> FALSE]
  ELSE IF fault = "mail" /\ d.msg = "OtpSent" /\ MailAwaited(rt)
  THEN [status |-> 500, msg |-> "ServerError", token |-> FALSE]
  ELSE IF fault = "sign" /\ d.token
  THEN IF rt = "authLogin2FA"
       THEN [status |-> 0, msg |-> "NoResponse", token |-> FALSE]
       ELSE [status |-> 500, msg |-> "ServerError", token |-> FALSE]
  ELSE [status |-> d.status, msg |-> d.msg, token |-> d.token]

(* ------------------------------- state --------------------------------- *)

\* User.findOne({ username })
Found(username) == username \in Accounts

FindOne(username) == IF Found(username) THEN users[username] ELSE UserSchema(role)

\* minted[a] counts the credentials answered for the code now stored for
\* account a (by requests that read it), up to 2; a saved issuance starts
\* it again at 0.
Minted(n) == IF n >= 2 THEN n ELSE n + 1

\* The response record of the request completed in the last step (NoResp
\* once it has been sent), with what the handler read (pre) and the history
\* of the account before the request: which operation had issued the stored
\* code (via), the number of Mismatch answers given since the stored code was
\* issued (run) and the code of the immediately preceding VerifyOtp if that
\* succeeded (lastOk, else NullCode); matched says whether otp_code equals
\* the otpCode read, saved whether the handler's save reached the store,
\* issued which code the handler generated (NullCode if none).
NoResp == [op |-> "none", username |-> "ghost@nexora", otp_code |-> NullCode,
           status |-> 0, msg |-> "none", token |-> FALSE, found |-> FALSE,
           matched |-> FALSE, saved |-> FALSE, pre |-> UserSchema("user"), via |-> "none", run |-> 0,
           lastOk |-> NullCode, issued |-> NullCode]

\* The intake routes that persist a document and then notify.
Intakes == {"messages", "schedule"}

\* The connection state of a server process that has not started yet:
\* cached.conn and cached.promise of server.js, isConnected of part_010,
\* and the history of mongoose.connect calls (started, still in flight,
\* whether one has failed).
NotBooted == [server |-> "none", conn |-> FALSE, promise |-> "null",
              isConnected |-> FALSE, attempts |-> 0, inflight |-> 0,
              failed |-> FALSE]

\* The _id values of the milestones collection, and the document of an
\* _id under which nothing is stored.
MilestoneIds == {"m1", "m2"}

NoMilestone == [exists |-> FALSE, key |-> "", label |-> "", count |-> 0]

Init ==
  /\ router \in Routers
  /\ role \in Roles
  /\ now = 0
  /\ users = [a \in Accounts |-> UserSchema(role)]
  /\ issuedBy = [a \in Accounts |-> "none"]
  /\ run = [a \in Accounts |-> 0]
  /\ lastOk = [a \in Accounts |-> NullCode]
  /\ minted = [a \in Accounts |-> 0]
  /\ resp = NoResp
  /\ reqs = EmptyBag
  /\ content = [c \in Collections |-> "none"]
  /\ projects = EmptyBag
  /\ messages = [i \in Intakes |-> 0]
  /\ cached = NotBooted
  /\ milestones = [id \in MilestoneIds |-> NoMilestone]

\* Time passes.
Tick ==
  /\ resp = NoResp
  /\ now < MaxTime
  /\ now' = now + 1
  /\ UNCHANGED <<router, role, users, issuedBy, run, lastOk, minted, resp, reqs,
               content, projects, messages, cached, milestones>>

\* The response has gone out; the server is ready for the next request.
Sent ==
  /\ resp # NoResp
  /\ resp' = NoResp
  /\ UNCHANGED <<router, role, now, users, issuedBy, run, lastOk, minted, reqs,
               content, projects, messages, cached, milestones>>

\* One whole request handled without interleaving: findOne, the decision,
\* the save, then mail or jwt.sign, then the response.
Serve(op, username, otp_code, d, fault) ==
  LET out == Respond(router, d, fault)
  IN /\ resp = NoResp
     /\ Applicable(d, fault)
     /\ users' = IF Found(username) /\ Saved(d, fault)
                 THEN [users EXCEPT ![username] = Persist(@, d.doc, d.paths)]
                 ELSE users
     /\ issuedBy' = IF Found(username) /\ Saved(d, fault) /\ d.msg = "OtpSent"
                    THEN [issuedBy EXCEPT ![username] = op]
                    ELSE issuedBy
     /\ run' = IF ~Found(username) THEN run
               ELSE IF op = "verify" /\ out.msg = "Mismatch"
               THEN [run EXCEPT ![username] =
                       IF @ > MAX_OTP_ATTEMPTS THEN @ ELSE @ + 1]
               ELSE IF (Saved(d, fault) /\ d.msg = "OtpSent") \/ out.token
               THEN [run EXCEPT ![username] = 0]
               ELSE run
     /\ minted' = IF ~Found(username) THEN minted
                  ELSE IF Saved(d, fault) /\ d.msg = "OtpSent"
                  THEN [minted EXCEPT ![username] = 0]
                  ELSE IF out.token
                  THEN [minted EXCEPT ![username] = Minted(@)]
                  ELSE minted
     /\ lastOk' = IF ~Found(username) THEN lastOk
                  ELSE IF op = "verify" /\ out.token
                  THEN [lastOk EXCEPT ![username] = otp_code]
                  ELSE [lastOk EXCEPT ![username] = NullCode]
     /\ resp' = [op |-> op, username |-> username, otp_code |-> otp_code,
                 status |-> out.status, msg |-> out.msg, token |-> out.token,
                 found |-> Found(username),
                 matched |-> Found(username) /\ FindOne(username).otpCode = otp_code,
                 saved |-> Found(username) /\ Saved(d, fault),
                 pre |-> FindOne(username),
                 via |-> IF Found(username) THEN issuedBy[username] ELSE "none",
                 run |-> IF Found(username) THEN run[username] ELSE 0,
                 lastOk |-> IF Found(username) THEN lastOk[username]
                            ELSE NullCode,
                 issued |-> IF d.msg = "OtpSent" THEN d.doc.otpCode ELSE NullCode]
     /\ UNCHANGED <<router, role, now, reqs, content, projects, messages, cached, milestones>>

\* The body of the 200 answer of /login: a message, otpSent and the
\* identifier the client sent.
LoginResponse(username) ==
  [message |-> "OTP sent to your email.", otpSent |-> TRUE,
   sessionData |-> [username |-> username]]

\* POST /login
StartLogin(username, password, k, fault) ==
  Serve("login", username, NullCode,
        IF Found(username)
        THEN LoginDecide(router, FindOne(username), password, k, now)
        ELSE NotFoundDecide(router, "login", FindOne(username)),
        fault)

\* POST /verify-otp
VerifyOtp(username, otp_code, fault) ==
  IF ~IsLength6(otp_code)
  THEN Serve("verify", username, otp_code,
             Decision(400, "InvalidInput", FALSE, FindOne(username), {}), "none")
  ELSE Serve("verify", username, otp_code,
             IF Found(username)
             THEN VerifyOtpDecide(router, FindOne(username), otp_code, now)
             ELSE NotFoundDecide(router, "verify", FindOne(username)),
             fault)

\* POST /resend-otp
ResendOtp(username, k, fault) ==
  Serve("resend", username, NullCode,
        IF Found(username)
        THEN ResendDecide(router, FindOne(username), k, now)
        ELSE NotFoundDecide(router, "resend", FindOne(username)),
        fault)

Next ==
  \/ Tick
  \/ Sent
  \/ \E u \in Usernames, p \in Passwords, k \in RandomDraws, f \in Faults :
       StartLogin(u, p, k, f)
  \/ \E u \in Usernames, c \in OtpInputs, f \in Faults : VerifyOtp(u, c, f)
  \/ \E u \in Usernames, k \in RandomDraws, f \in Faults : ResendOtp(u, k, f)

Spec == Init /\ [][Next]_vars

(* ---------------------- interleaved specification ---------------------- *)

\* Handlers suspend at every await, so requests for the same account
\* interleave between findOne, the save and the rest of the handler.  reqs
\* is the bag of requests in flight.  A request in flight holds the decision
\* its handler took on what findOne returned and where the handler is
\* suspended: at "save" (await user.save() / User.updateOne) or at "finish"
\* (the save has returned; mail or jwt.sign and the response are to come).
\* Of the handler's local document only the assigned paths are kept, the
\* ones a save writes; of the submitted otp_code only whether it matched
\* (matched), which is all the rest of the handler and its response depend
\* on.

Blank == UserSchema(role)

Pending(d) == [d EXCEPT !.doc = Persist(Blank, d.doc, d.paths)]

Settled(d) == [d EXCEPT !.doc = Blank]

\* The decision of a request on what findOne returned.
Decide(op, username, otp_code, password, k) ==
  IF ~Found(username) THEN NotFoundDecide(router, op, FindOne(username))
  ELSE IF op = "login" THEN LoginDecide(router, FindOne(username), password, k, now)
  ELSE IF op = "verify" THEN VerifyOtpDecide(router, FindOne(username), otp_code, now)
  ELSE ResendDecide(router, FindOne(username), k, now)

\* The response of request r goes out.
Answer(r, saved) ==
  LET out == Respond(router, r.d, r.fault)
  IN resp' = [op |-> r.op, username |-> r.username, otp_code |-> NullCode,
              status |-> out.status, msg |-> out.msg, token |-> out.token,
              found |-> r.found, matched |-> r.matched, saved |-> saved,
              pre |-> UserSchema("user"), via |-> "none", run |-> 0,
              lastOk |-> NullCode, issued |-> NullCode]

\* Mutant of Find: on a match the handler signs and answers without
\* waiting for, or issuing, its clearing save.
Find_AnswersWithoutSave(op, username, otp_code, password, k, fault) ==
  LET d == Decide(op, username, otp_code, password, k)
      r == [op |-> op, pc |-> "save", username |-> username,
            fault |-> fault, found |-> Found(username),
            matched |-> Found(username) /\ FindOne(username).otpCode = otp_code,
            stale |-> FALSE, d |-> Pending(d)]
  IN /\ resp = NoResp
     /\ BagCardinality(reqs) < MaxInFlight
     /\ op = "verify" => IsLength6(otp_code)
     /\ Applicable(d, fault)
     /\ IF d.paths = {} \/ fault = "find" \/ d.token
        THEN Answer(r, FALSE) /\ UNCHANGED reqs
        ELSE reqs' = reqs (+) SetToBag({r}) /\ UNCHANGED resp
     /\ UNCHANGED <<router, role, now, users, issuedBy, lastOk, minted,
                  content, projects, messages, cached, milestones>>

\* A request arrives, passes validation, and findOne returns: the handler
\* decides.  With nothing to save it answers at once; otherwise it has
\* issued its save and is suspended on it.  (Find, Save and Finish leave
\* the history variable run to the specification that takes them.)
Find(op, username, otp_code, password, k, fault) ==
  LET d == Decide(op, username, otp_code, password, k)
      r == [op |-> op, pc |-> "save", username |-> username,
            fault |-> fault, found |-> Found(username),
            matched |-> Found(username) /\ FindOne(username).otpCode = otp_code,
            stale |-> FALSE, d |-> Pending(d)]
  IN /\ resp = NoResp
     /\ BagCardinality(reqs) < MaxInFlight
     /\ op = "verify" => IsLength6(otp_code)
     /\ Applicable(d, fault)
     /\ IF d.paths = {} \/ fault = "find"
        THEN Answer(r, FALSE) /\ UNCHANGED reqs
        ELSE reqs' = reqs (+) SetToBag({r}) /\ UNCHANGED resp
     /\ UNCHANGED <<router, role, now, users, issuedBy, lastOk, minted,
                  content, projects, messages, cached, milestones>>

\* A request in flight that compared against a code is stale once a later
\* issuance has been saved: the code it read is no longer the one stored.
Superseded(q) ==
  IF q.d.token \/ q.d.msg = "Mismatch" THEN [q EXCEPT !.stale = TRUE] ELSE q

\* The store executes the save of request r (or fails it).
Save(r) ==
  /\ resp = NoResp
  /\ BagIn(r, reqs)
  /\ r.pc = "save"
  /\ IF r.fault = "save"
     THEN /\ Answer(r, FALSE)
          /\ reqs' = reqs (-) SetToBag({r})
          /\ UNCHANGED users
          /\ UNCHANGED minted
     ELSE /\ users' = [users EXCEPT ![r.username] = Persist(@, r.d.doc, r.d.paths)]
          /\ reqs' = (IF r.d.msg = "OtpSent"
                      THEN BagOfAll(Superseded, reqs (-) SetToBag({r}))
                      ELSE reqs (-) SetToBag({r}))
                        (+) SetToBag({[r EXCEPT !.pc = "finish", !.d = Settled(@)]})
          /\ minted' = IF r.d.msg = "OtpSent"
                       THEN [minted EXCEPT ![r.username] = 0]
                       ELSE minted
          /\ UNCHANGED resp
  /\ UNCHANGED <<router, role, now, issuedBy, lastOk, content, projects, messages, cached, milestones>>

\* The handler of request r resumes after its save: sendMail or jwt.sign,
\* then the response.
Finish(r) ==
  /\ resp = NoResp
  /\ BagIn(r, reqs)
  /\ r.pc = "finish"
  /\ Answer(r, TRUE)
  /\ reqs' = reqs (-) SetToBag({r})
  /\ minted' = IF Respond(router, r.d, r.fault).token /\ ~r.stale
               THEN [minted EXCEPT ![r.username] = Minted(@)]
               ELSE minted
  /\ UNCHANGED <<router, role, now, users, issuedBy, lastOk, content, projects, messages, cached, milestones>>

\* The faults drawn in the interleaved specification.
FaultsI == {"none"}

\* Time passes while requests are in flight: long enough for any stored
\* code to expire (otpExpiresAt is at most now + OTP_EXPIRY_MINUTES).
Lapse ==
  /\ resp = NoResp
  /\ now + OTP_EXPIRY_MINUTES + 1 <= MaxTime
  /\ now' = now + OTP_EXPIRY_MINUTES + 1
  /\ UNCHANGED <<router, role, users, issuedBy, run, lastOk, minted, resp, reqs,
               content, projects, messages, cached, milestones>>

NextI ==
  \/ Lapse
  \/ Sent
  \/ \E u \in Accounts, p \in Passwords, k \in RandomDraws, f \in FaultsI :
       Find("login", u, NullCode, p, k, f) /\ UNCHANGED run
  \/ \E u \in Accounts, c \in OtpInputs, f \in FaultsI :
       Find("verify", u, c, "rightpw", 0, f) /\ UNCHANGED run
  \/ \E u \in Accounts, k \in RandomDraws, f \in FaultsI :
       Find("resend", u, NullCode, "rightpw", k, f) /\ UNCHANGED run
  \/ \E r \in BagToSet(reqs) : Save(r) /\ UNCHANGED run
  \/ \E r \in BagToSet(reqs) : Finish(r) /\ UNCHANGED run

InitI == Init /\ role = "admin"

SpecI == InitI /\ [][NextI]_vars

\* The interleaved specification with the history of Mismatch answers:
\* run[a] is the number of Mismatch answers (counted up to
\* MAX_OTP_ATTEMPTS + 1) given by requests that compared against the code
\* now stored for a; the save of an issuance starts a new count.
Counted(stale, n) ==
  IF resp'.op = "verify" /\ resp'.found /\ resp'.msg = "Mismatch" /\ ~stale
  THEN [n EXCEPT ![resp'.username] = IF @ > MAX_OTP_ATTEMPTS THEN @ ELSE @ + 1]
  ELSE n

Recount(r, n) ==
  IF r.d.msg = "OtpSent" /\ r.fault # "save"
  THEN [n EXCEPT ![r.username] = 0]
  ELSE n

NextR ==
  \/ Lapse
  \/ Sent
  \/ \E u \in Accounts, p \in Passwords, k \in RandomDraws, f \in FaultsI :
       Find("login", u, NullCode, p, k, f) /\ UNCHANGED run
  \/ \E u \in Accounts, c \in OtpInputs, f \in FaultsI :
       Find("verify", u, c, "rightpw", 0, f) /\ run' = Counted(FALSE, run)
  \/ \E u \in Accounts, k \in RandomDraws, f \in FaultsI :
       Find("resend", u, NullCode, "rightpw", k, f) /\ UNCHANGED run
  \/ \E r \in BagToSet(reqs) : Save(r) /\ run' = Recount(r, run)
  \/ \E r \in BagToSet(reqs) : Finish(r) /\ run' = Counted(r.stale, run)

SpecR == InitI /\ [][NextR]_vars

(* ----------------------- liveness specification ------------------------ *)

\* One request at a time, followed through its suspensions.  In part_006
\* and part_007 the handler of /login and /resend-otp awaits
\* transporter.sendMail before it responds; authLogin2FARoutes.js passes a
\* callback and responds at once.  The store and the event loop are live
\* (weak fairness of Save, Dispatch, Respond200 and Sent); nothing obliges
\* the mail transport to settle.

AwaitsMail(r) == r.d.msg = "OtpSent" /\ MailAwaited(router)

\* A request arrives while none is in flight.
Arrive(op, username, otp_code, password, k) ==
  /\ reqs = EmptyBag
  /\ Find(op, username, otp_code, password, k, "none")
  /\ UNCHANGED run

\* await transporter.sendMail(...): the handler hands the message to the
\* transport and is suspended on the promise.
Dispatch(r) ==
  /\ resp = NoResp
  /\ BagIn(r, reqs)
  /\ r.pc = "finish"
  /\ AwaitsMail(r)
  /\ reqs' = (reqs (-) SetToBag({r})) (+) SetToBag({[r EXCEPT !.pc = "mail"]})
  /\ UNCHANGED <<router, role, now, users, issuedBy, run, lastOk, minted, resp,
                 content, projects, messages, cached, milestones>>

\* The transport settles the promise (fulfilled or rejected) and the
\* handler responds.
Settle(r, fault) ==
  /\ resp = NoResp
  /\ BagIn(r, reqs)
  /\ r.pc = "mail"
  /\ Answer([r EXCEPT !.fault = fault], TRUE)
  /\ reqs' = reqs (-) SetToBag({r})
  /\ UNCHANGED <<router, role, now, users, issuedBy, run, lastOk, minted,
                 content, projects, messages, cached, milestones>>

\* The handler responds without waiting for the transport.
Respond200(r) ==
  /\ ~AwaitsMail(r)
  /\ Finish(r)
  /\ UNCHANGED run

NextL ==
  \/ Lapse
  \/ Sent
  \/ \E u \in Accounts, p \in Passwords, k \in RandomDraws :
       Arrive("login", u, NullCode, p, k)
  \/ \E u \in Accounts, c \in OtpInputs : Arrive("verify", u, c, "rightpw", 0)
  \/ \E u \in Accounts, k \in RandomDraws :
       Arrive("resend", u, NullCode, "rightpw", k)
  \/ \E r \in BagToSet(reqs) : Save(r) /\ UNCHANGED run
  \/ \E r \in BagToSet(reqs) : Dispatch(r)
  \/ \E r \in BagToSet(reqs), f \in {"none", "mail"} : Settle(r, f)
  \/ \E r \in BagToSet(reqs) : Respond200(r)

FairnessL ==
  /\ WF_vars(Sent)
  /\ WF_vars(\E r \in BagToSet(reqs) : Save(r) /\ UNCHANGED run)
  /\ WF_vars(\E r \in BagToSet(reqs) : Dispatch(r))
  /\ WF_vars(\E r \in BagToSet(reqs) : Respond200(r))

SpecL == InitI /\ [][NextL]_vars /\ FairnessL

(* ------------------------ auth middleware, CRUD ------------------------ *)

\* jwt.sign(payload, JWT_SECRET, { expiresIn: '5h' }), in minutes.
TOKEN_LIFETIME == 300

\* The key a presented token was signed with.
Secrets == {"JWT_SECRET", "other"}

\* When the presented tokens were signed: five hours ago, three minutes
\* short of five hours ago, and now.
IssuedAts == {0 - TOKEN_LIFETIME, 3 - TOKEN_LIFETIME, 0}

\* jwt.sign: the token carries user.role and exp = iat + expiresIn.
Sign(secret, r, iat) ==
  [kind |-> "jwt", secret |-> secret, role |-> r, exp |-> iat + TOKEN_LIFETIME]

\* The x-auth-token header of a request: absent, not a token, or a token
\* as jwt.sign makes them.
Headers ==
  {[kind |-> "none"], [kind |-> "garbage"]}
    \cup {Sign(k, r, iat) : k \in Secrets, r \in Roles, iat \in IssuedAts}

\* jwt.verify(token, JWT_SECRET) returns the payload: well formed, signed
\* with JWT_SECRET and not yet at its exp; otherwise it throws.
jwtVerify(h, t) == h.kind = "jwt" /\ h.secret = "JWT_SECRET" /\ t < h.exp

\* Mutant of auth: the role of the decoded user is not looked at.
auth_AnyRole(h, t) ==
  IF h.kind = "none"
  THEN [status |-> 401, msg |-> "NoToken", responded |-> TRUE, next |-> FALSE]
  ELSE IF ~jwtVerify(h, t)
  THEN [status |-> 401, msg |-> "TokenNotValid", responded |-> TRUE, next |-> FALSE]
  ELSE [status |-> 0, msg |-> "none", responded |-> FALSE, next |-> TRUE]

\* The auth middleware: what it answers and whether it calls next().
auth(h, t) ==
  IF h.kind = "none"
  THEN [status |-> 401, msg |-> "NoToken", responded |-> TRUE, next |-> FALSE]
  ELSE IF ~jwtVerify(h, t)
  THEN [status |-> 401, msg |-> "TokenNotValid", responded |-> TRUE, next |-> FALSE]
  ELSE IF h.role # "admin"
  THEN [status |-> 403, msg |-> "Forbidden", responded |-> TRUE, next |-> FALSE]
  ELSE [status |-> 0, msg |-> "none", responded |-> FALSE, next |-> TRUE]

\* A request to a route behind auth reaches the middleware.
Protected(h) ==
  LET a == auth(h, now)
  IN /\ resp = NoResp
     /\ resp' = [op |-> "auth", header |-> h, status |-> a.status,
                 msg |-> a.msg, responded |-> a.responded, next |-> a.next]
     /\ UNCHANGED <<router, role, now, users, issuedBy, run, lastOk, minted,
                    reqs, content, projects, messages, cached, milestones>>

NextA ==
  \/ Tick
  \/ Sent
  \/ \E h \in Headers : Protected(h)

SpecA == Init /\ [][NextA]_vars

\* The routes that create (post), update (put) and delete stored content.
Methods == {"post", "put", "delete"}

\* The routes registered without the auth middleware.
Unguarded == {<<"certificates", "post">>, <<"certificates", "delete">>}

\* Methods no route is registered for.
Unrouted == {<<"certificates", "put">>}

\* What the handler of collection c does to the document addressed: post
\* creates it, put updates it if stored, delete removes it if stored.
Handle(doc, m) ==
  IF m = "post" THEN "created"
  ELSE IF doc = "none" THEN "none"
  ELSE IF m = "put" THEN "updated"
  ELSE "none"

\* A create, update or delete request for collection c with header h; a
\* post is one for a document not yet stored.
Request(c, m, h) ==
  LET a == auth(h, now)
      routed == <<c, m>> \notin Unrouted
      passed == routed /\ (<<c, m>> \in Unguarded \/ a.next)
      after == IF passed THEN Handle(content[c], m) ELSE content[c]
  IN /\ resp = NoResp
     /\ m = "post" => content[c] = "none"
     /\ content' = [content EXCEPT ![c] = after]
     /\ resp' = [op |-> "content", collection |-> c, method |-> m,
                 admin |-> a.next, routed |-> routed, handled |-> passed,
                 changed |-> after # content[c]]
     /\ UNCHANGED <<router, role, now, users, issuedBy, run, lastOk, minted,
                    reqs, projects, messages, cached, milestones>>

NextC ==
  \/ Sent
  \/ \E c \in Collections, m \in Methods, h \in Headers : Request(c, m, h)

InitC == Init /\ router = "part_006" /\ role = "admin"

SpecC == InitC /\ [][NextC]_vars

(* ---------------------------- project slugs ---------------------------- *)

\* Strings are sequences of one-character strings.
Uppers == <<"A", "B", "M", "P", "Y">>

Lowers == <<"a", "b", "m", "p", "y">>

Digits36 == <<"0", "1", "2", "3", "4", "5", "6", "7", "8", "9", "a", "b",
              "c", "d", "e", "f", "g", "h", "i", "j", "k", "l", "m", "n",
              "o", "p", "q", "r", "s", "t", "u", "v", "w", "x", "y", "z">>

Range(f) == {f[i] : i \in DOMAIN f}

\* String.prototype.toLowerCase
toLowerCase(s) ==
  [i \in 1..Len(s) |->
     IF \E j \in DOMAIN Uppers : Uppers[j] = s[i]
     THEN Lowers[CHOOSE j \in DOMAIN Uppers : Uppers[j] = s[i]]
     ELSE s[i]]

RECURSIVE TrimStart(_, _)
\* s without its leading characters from the set cs.
TrimStart(s, cs) ==
  IF s # <<>> /\ Head(s) \in cs THEN TrimStart(Tail(s), cs) ELSE s

RECURSIVE TrimEnd(_, _)
TrimEnd(s, cs) ==
  IF s # <<>> /\ s[Len(s)] \in cs THEN TrimEnd(SubSeq(s, 1, Len(s) - 1), cs)
  ELSE s

\* String.prototype.trim
trim(s) == TrimEnd(TrimStart(s, {" "}), {" "})

RECURSIVE ReplaceRuns(_, _, _)
\* s.replace(/[cs]+/g, to): every maximal run of characters of cs becomes to.
ReplaceRuns(s, cs, to) ==
  IF s = <<>> THEN <<>>
  ELSE IF Head(s) \in cs
  THEN to \o ReplaceRuns(TrimStart(s, cs), cs, to)
  ELSE <<Head(s)>> \o ReplaceRuns(Tail(s), cs, to)

\* The characters /[^a-z0-9\-]/ leaves in place.
SlugChars == Range(Digits36) \cup {"-"}

\* slugify: lower case, trim, whitespace and underscores to a dash, other
\* characters removed, dashes collapsed, leading and trailing dashes cut.
slugify(text) ==
  TrimEnd(TrimStart(
    ReplaceRuns(
      SelectSeq(ReplaceRuns(trim(toLowerCase(text)), {" ", "_"}, <<"-">>),
                LAMBDA c : c \in SlugChars),
      {"-"}, <<"-">>),
    {"-"}), {"-"})

RECURSIVE Frac36(_, _, _)
\* The first n base-36 digits of the fraction num / den, ending where the
\* expansion ends.
Frac36(num, den, n) ==
  IF n = 0 \/ num = 0 THEN <<>>
  ELSE <<Digits36[((num * 36) \div den) + 1]>>
         \o Frac36((num * 36) % den, den, n - 1)

\* Math.random().toString(36) with Math.random() = k / NumRandom.
toString36(k) ==
  IF k = 0 THEN <<"0">> ELSE <<"0", ".">> \o Frac36(k, NumRandom, 11)

\* String.prototype.slice(from, to) for 0 <= from <= to.
slice(s, from, to) ==
  IF from >= Len(s) THEN <<>>
  ELSE SubSeq(s, from + 1, IF to < Len(s) THEN to ELSE Len(s))

\* Math.random().toString(36).slice(2, 6)
Suffix(k) == slice(toString36(k), 2, 6)

\* Stored projects at most, and the titles clients post.
MaxProjects == 3

Titles == {<<"M", "y", " ", "A", "p", "p">>, <<"m", "y", "_", "a", "p", "p">>,
           <<" ", "M", "y", "-", "-", "A", "p", "p", "!">>, <<"B">>,
           <<"!", "!">>, <<" ", " ">>}

\* POST /api/projects: a title that is blank is answered 400; otherwise
\* new Project({title: trim(title)}) and project.save(), whose
\* pre('validate') hook sets slug = slugify(title) and, unless the slug is
\* empty, starts the existence loop with candidate = slug.
Post(title) ==
  LET slug == slugify(trim(title))
      r == [op |-> "project", pc |-> IF slug = <<>> THEN "insert" ELSE "check",
            slug |-> slug, candidate |-> slug, attempt |-> 0, checks |-> 0]
  IN /\ resp = NoResp
     /\ BagCardinality(reqs) < MaxInFlight
     /\ BagCardinality(projects) + BagCardinality(reqs) < MaxProjects
     /\ IF trim(title) = <<>>
        THEN /\ resp' = [op |-> "project", status |-> 400, slug |-> <<>>,
                         checks |-> 0]
             /\ UNCHANGED reqs
        ELSE /\ reqs' = reqs (+) SetToBag({r})
             /\ UNCHANGED resp
     /\ UNCHANGED <<router, role, now, users, issuedBy, run, lastOk, minted,
                    content, projects, messages, cached, milestones>>

\* One turn of the loop of the hook: countDocuments({slug: candidate})
\* returns.  No document: the candidate becomes the slug and the insert is
\* issued.  A collision: candidate = slug-suffix and attempt + 1; after the
\* sixth collision the loop ends and the slug is left as it was.
Check(r, k) ==
  LET exists == BagIn(r.candidate, projects)
      after == IF ~exists
               THEN [r EXCEPT !.slug = r.candidate, !.pc = "insert",
                              !.checks = @ + 1]
               ELSE [r EXCEPT !.candidate = r.slug \o <<"-">> \o Suffix(k),
                              !.attempt = @ + 1, !.checks = @ + 1,
                              !.pc = IF r.attempt + 1 < 6 THEN "check"
                                     ELSE "insert"]
  IN /\ resp = NoResp
     /\ BagIn(r, reqs)
     /\ r.pc = "check"
     /\ reqs' = (reqs (-) SetToBag({r})) (+) SetToBag({after})
     /\ UNCHANGED <<router, role, now, users, issuedBy, run, lastOk, minted,
                    resp, content, projects, messages, cached, milestones>>

\* The insert of the document is stored (the index on slug is not unique)
\* and the handler answers 201.
Insert(r) ==
  /\ resp = NoResp
  /\ BagIn(r, reqs)
  /\ r.pc = "insert"
  /\ projects' = projects (+) SetToBag({r.slug})
  /\ reqs' = reqs (-) SetToBag({r})
  /\ resp' = [op |-> "project", status |-> 201, slug |-> r.slug,
              checks |-> r.checks]
  /\ UNCHANGED <<router, role, now, users, issuedBy, run, lastOk, minted,
                 content, messages, cached, milestones>>

NextP ==
  \/ Sent
  \/ \E t \in Titles : Post(t)
  \/ \E r \in BagToSet(reqs), k \in RandomDraws : Check(r, k)
  \/ \E r \in BagToSet(reqs) : Insert(r)

SpecP == InitC /\ [][NextP]_vars

(* ---------------------------- contact intake --------------------------- *)

\* Documents persisted per intake route at most.
MaxMessages == 3

\* What a handler did: status answered, whether the document was persisted,
\* and how each notification went ("sent", "failed", or "skipped" when the
\* handler never got to it).
Outcome(status, persisted, mail, whatsapp) ==
  [status |-> status, persisted |-> persisted, mail |-> mail,
   whatsapp |-> whatsapp]

\* POST /api/messages: validation, newMessage.save(), then
\* await transporter.sendMail inside the handler's try, then WhatsApp inside
\* a try of its own, then 201; the handler's catch answers 500.
Intake_messageRoutes(valid, saveOk, mailOk, waOk) ==
  IF ~valid THEN Outcome(400, FALSE, "skipped", "skipped")
  ELSE IF ~saveOk THEN Outcome(500, FALSE, "skipped", "skipped")
  ELSE IF ~mailOk THEN Outcome(500, TRUE, "failed", "skipped")
  ELSE Outcome(201, TRUE, "sent", IF waOk THEN "sent" ELSE "failed")

\* POST /api/schedule: validation, newSchedule.save(), then the email and
\* WhatsApp each inside a try of its own, then 201; the handler's catch
\* answers 500.
Intake_scheduleRoutes(valid, saveOk, mailOk, waOk) ==
  IF ~valid THEN Outcome(400, FALSE, "skipped", "skipped")
  ELSE IF ~saveOk THEN Outcome(500, FALSE, "skipped", "skipped")
  ELSE Outcome(201, TRUE, IF mailOk THEN "sent" ELSE "failed",
               IF waOk THEN "sent" ELSE "failed")

\* One intake request on route i, with the body valid or not and each of
\* the store, the mail transport and the WhatsApp client succeeding or not.
Intake(i, valid, saveOk, mailOk, waOk) ==
  LET out == IF i = "messages"
             THEN Intake_messageRoutes(valid, saveOk, mailOk, waOk)
             ELSE Intake_scheduleRoutes(valid, saveOk, mailOk, waOk)
  IN /\ resp = NoResp
     /\ messages[i] < MaxMessages
     /\ messages' = IF out.persisted THEN [messages EXCEPT ![i] = @ + 1]
                    ELSE messages
     /\ resp' = [op |-> "intake", route |-> i, status |-> out.status,
                 persisted |-> out.persisted, mail |-> out.mail,
                 whatsapp |-> out.whatsapp]
     /\ UNCHANGED <<router, role, now, users, issuedBy, run, lastOk, minted,
                    reqs, content, projects, cached, milestones>>

NextM ==
  \/ Sent
  \/ \E i \in Intakes, valid \in BOOLEAN, saveOk \in BOOLEAN,
        mailOk \in BOOLEAN, waOk \in BOOLEAN :
       Intake(i, valid, saveOk, mailOk, waOk)

SpecM == InitC /\ [][NextM]_vars

(* ------------------------- database connection ------------------------ *)

\* The two servers with a connect-per-request middleware.
Servers == {"server.js", "part_010"}

\* mongoose.connect calls per process at most.
MaxAttempts == 3

\* The routers mounted behind the middleware that requests are sent to.
Paths == {"/api/auth", "/api/content", "/api/messages"}

\* The process starts.  server.js creates the empty cache; part_010 calls
\* connectDB() at once, which calls mongoose.connect.
Boot(s) ==
  /\ resp = NoResp
  /\ cached.server = "none"
  /\ IF s = "server.js"
     THEN /\ cached' = [NotBooted EXCEPT !.server = s]
          /\ UNCHANGED reqs
     ELSE /\ cached' = [NotBooted EXCEPT !.server = s, !.attempts = 1,
                                         !.inflight = 1]
          /\ reqs' = reqs (+) SetToBag({[op |-> "boot", pc |-> "connect",
                                        path |-> "none"]})
  /\ UNCHANGED <<router, role, now, users, issuedBy, run, lastOk, minted, resp,
                 content, projects, messages, milestones>>

\* The response of the middleware chain to a request for path.
Served(path, status) == [op |-> "request", path |-> path, status |-> status]

\* server.js: a request enters the middleware, which calls connectDB():
\* with cached.conn it returns at once and the request is served; without
\* a cached.promise it calls mongoose.connect and keeps the promise; then
\* it awaits cached.promise.
Middleware_server(path) ==
  /\ resp = NoResp
  /\ cached.server = "server.js"
  /\ BagCardinality(reqs) < MaxInFlight
  /\ IF cached.conn
     THEN /\ resp' = Served(path, 200)
          /\ UNCHANGED <<reqs, cached>>
     ELSE /\ cached.promise = "null" => cached.attempts < MaxAttempts
          /\ reqs' = reqs (+) SetToBag({[op |-> "request", pc |-> "await",
                                        path |-> path]})
          /\ cached' = IF cached.promise = "null"
                       THEN [cached EXCEPT !.promise = "pending",
                                           !.attempts = @ + 1,
                                           !.inflight = @ + 1]
                       ELSE cached
          /\ UNCHANGED resp
  /\ UNCHANGED <<router, role, now, users, issuedBy, run, lastOk, minted,
                 content, projects, messages, milestones>>

\* part_010: a request enters the middleware: if isConnected is false it
\* awaits connectDB(), which calls mongoose.connect.
Middleware_part_010(path) ==
  /\ resp = NoResp
  /\ cached.server = "part_010"
  /\ BagCardinality(reqs) < MaxInFlight
  /\ IF cached.isConnected
     THEN /\ resp' = Served(path, 200)
          /\ UNCHANGED <<reqs, cached>>
     ELSE /\ cached.attempts < MaxAttempts
          /\ reqs' = reqs (+) SetToBag({[op |-> "request", pc |-> "connect",
                                        path |-> path]})
          /\ cached' = [cached EXCEPT !.attempts = @ + 1, !.inflight = @ + 1]
          /\ UNCHANGED resp
  /\ UNCHANGED <<router, role, now, users, issuedBy, run, lastOk, minted,
                 content, projects, messages, milestones>>

\* server.js: the promise of mongoose.connect settles.
Settled_server(ok) ==
  /\ resp = NoResp
  /\ cached.server = "server.js"
  /\ cached.promise = "pending"
  /\ cached' = [cached EXCEPT !.promise = IF ok THEN "fulfilled" ELSE "rejected",
                              !.inflight = @ - 1,
                              !.failed = @ \/ ~ok]
  /\ UNCHANGED <<router, role, now, users, issuedBy, run, lastOk, minted, resp,
                 reqs, content, projects, messages, milestones>>

\* server.js: a request resumes from await cached.promise: cached.conn is
\* set and next() serves it, or the rejection is thrown and next(err)
\* answers 500.
Resume_server(r) ==
  /\ resp = NoResp
  /\ cached.server = "server.js"
  /\ BagIn(r, reqs)
  /\ r.pc = "await"
  /\ cached.promise \in {"fulfilled", "rejected"}
  /\ reqs' = reqs (-) SetToBag({r})
  /\ IF cached.promise = "fulfilled"
     THEN cached' = [cached EXCEPT !.conn = TRUE] /\ resp' = Served(r.path, 200)
     ELSE UNCHANGED cached /\ resp' = Served(r.path, 500)
  /\ UNCHANGED <<router, role, now, users, issuedBy, run, lastOk, minted,
                 content, projects, messages, milestones>>

\* part_010: the mongoose.connect of one connectDB() call settles:
\* isConnected = true, or the catch logs the error; the middleware calls
\* next() in both cases, and without a connection the routes answer 500.
Return_part_010(r, ok) ==
  /\ resp = NoResp
  /\ cached.server = "part_010"
  /\ BagIn(r, reqs)
  /\ r.pc = "connect"
  /\ reqs' = reqs (-) SetToBag({r})
  /\ cached' = [cached EXCEPT !.isConnected = @ \/ ok, !.inflight = @ - 1,
                              !.failed = @ \/ ~ok]
  /\ resp' = IF r.op = "boot" THEN resp
             ELSE Served(r.path, IF cached.isConnected \/ ok THEN 200 ELSE 500)
  /\ UNCHANGED <<router, role, now, users, issuedBy, run, lastOk, minted,
                 content, projects, messages, milestones>>

NextD ==
  \/ Sent
  \/ \E s \in Servers : Boot(s)
  \/ \E path \in Paths : Middleware_server(path)
  \/ \E path \in Paths : Middleware_part_010(path)
  \/ \E ok \in BOOLEAN : Settled_server(ok)
  \/ \E r \in BagToSet(reqs) : Resume_server(r)
  \/ \E r \in BagToSet(reqs), ok \in BOOLEAN : Return_part_010(r, ok)

SpecD == InitC /\ [][NextD]_vars

(* ------------------------------ milestones ----------------------------- *)

\* A field missing from req.body, for strings and for count.
Undefined == "undefined"

NoCount == -1

\* The values req.body carries for key, label and count.
KeyInputs == {Undefined, "", "clients", "visits"}

LabelInputs == {Undefined, "", "Clients", "Visits"}

CountInputs == {NoCount, 0, 7}

\* The x-auth-token headers presented: none, an admin's and a user's token.
Callers == {[kind |-> "none"], Sign("JWT_SECRET", "admin", 0),
            Sign("JWT_SECRET", "user", 0)}

\* if (v): a string that is present and not empty.
Truthy(v) == v \notin {Undefined, ""}

\* Mutant of PutDecide: a key in the body is assigned like label and count.
PutDecide_AssignsKey(doc, key, label, count) ==
  LET local == [doc EXCEPT !.key = IF Truthy(key) THEN key ELSE @,
                           !.label = IF label # Undefined THEN label ELSE @,
                           !.count = IF count # NoCount THEN count ELSE @]
  IN IF local.label = ""
     THEN [status |-> 400, doc |-> doc]
     ELSE [status |-> 200, doc |-> local]

\* The handler of PUT /:id on the milestone getMilestone found: 400 if
\* req.body.key is truthy; else label and count are assigned when not null
\* and the document is saved (label is required: an empty label fails
\* validation, 400, nothing stored).
PutDecide(doc, key, label, count) ==
  IF Truthy(key) THEN [status |-> 400, doc |-> doc]
  ELSE LET local == [doc EXCEPT !.label = IF label # Undefined THEN label ELSE @,
                                !.count = IF count # NoCount THEN count ELSE @]
       IN IF local.label = ""
          THEN [status |-> 400, doc |-> doc]
          ELSE [status |-> 200, doc |-> local]

\* The response of a milestone route: pre is the document stored under id
\* before the request, key the key of the body.
MilestoneResp(method, id, status, admin, pre, key) ==
  [op |-> "milestone", method |-> method, id |-> id, status |-> status,
   admin |-> admin, pre |-> pre, key |-> key]

\* POST /api/milestones: auth, 400 without key or label, then save under a
\* new _id: 409 if the unique index has the key, else 201.
CreateMilestone(h, id, key, label, count) ==
  LET a == auth(h, now)
      taken == \E j \in MilestoneIds :
                 milestones[j].exists /\ milestones[j].key = key
      status == IF ~a.next THEN a.status
                ELSE IF ~Truthy(key) \/ ~Truthy(label) THEN 400
                ELSE IF taken THEN 409 ELSE 201
  IN /\ resp = NoResp
     /\ ~milestones[id].exists
     /\ milestones' =
          IF status = 201
          THEN [milestones EXCEPT ![id] =
                  [exists |-> TRUE, key |-> key, label |-> label,
                   count |-> IF count = NoCount THEN 0 ELSE count]]
          ELSE milestones
     /\ resp' = MilestoneResp("post", id, status, a.next, milestones[id], key)
     /\ UNCHANGED <<router, role, now, users, issuedBy, run, lastOk, minted,
                    reqs, content, projects, messages, cached>>

\* PUT /api/milestones/:id: auth, getMilestone (404 if nothing is stored
\* under id), then the handler.
UpdateMilestone(h, id, key, label, count) ==
  LET a == auth(h, now)
      pre == milestones[id]
      out == IF ~a.next THEN [status |-> a.status, doc |-> pre]
             ELSE IF ~pre.exists THEN [status |-> 404, doc |-> pre]
             ELSE PutDecide(pre, key, label, count)
  IN /\ resp = NoResp
     /\ milestones' = [milestones EXCEPT ![id] = out.doc]
     /\ resp' = MilestoneResp("put", id, out.status, a.next, pre, key)
     /\ UNCHANGED <<router, role, now, users, issuedBy, run, lastOk, minted,
                    reqs, content, projects, messages, cached>>

\* DELETE /api/milestones/:id: auth, getMilestone, findByIdAndDelete.
DeleteMilestone(h, id) ==
  LET a == auth(h, now)
      pre == milestones[id]
      status == IF ~a.next THEN a.status
                ELSE IF ~pre.exists THEN 404 ELSE 200
  IN /\ resp = NoResp
     /\ milestones' = IF status = 200
                      THEN [milestones EXCEPT ![id] = NoMilestone]
                      ELSE milestones
     /\ resp' = MilestoneResp("delete", id, status, a.next, pre, Undefined)
     /\ UNCHANGED <<router, role, now, users, issuedBy, run, lastOk, minted,
                    reqs, content, projects, messages, cached>>

NextK ==
  \/ Sent
  \/ \E h \in Callers, id \in MilestoneIds, key \in KeyInputs,
        label \in LabelInputs, count \in CountInputs :
       CreateMilestone(h, id, key, label, count)
  \/ \E h \in Callers, id \in MilestoneIds, key \in KeyInputs,
        label \in LabelInputs, count \in CountInputs :
       UpdateMilestone(h, id, key, label, count)
  \/ \E h \in Callers, id \in MilestoneIds : DeleteMilestone(h, id)

SpecK == InitC /\ [][NextK]_vars

(* ------------------------------- claims -------------------------------- *)

\* The last step completed a /verify-otp request that passed validation
\* (a 6-character otp_code) for a stored account, without a fault of the
\* store or of jwt.sign.
Verified ==
  /\ resp.op = "verify"
  /\ resp.found
  /\ IsLength6(resp.otp_code)
  /\ resp.status \notin {0, 500}

NoCredentialAnswers ==
  {"InvalidInput", "NotFound", "LockedOut", "NoActiveCode", "Expired",
   "Mismatch", "ServerError", "NoResponse"}

\* C1: VerifyOtp issues a credential exactly when the submitted code equals
\* the stored otpCode, the code is not expired (otpExpiresAt >= now) and the
\* account is not locked out (otpAttempts < MAX_OTP_ATTEMPTS); every other
\* answer, the 500 of a fault included, carries no credential.
C1_CredentialIffMatch ==
  resp.op = "verify" =>
    /\ resp.token =>
         /\ resp.found
         /\ resp.status = 200
         /\ resp.pre.otpCode = resp.otp_code
         /\ resp.pre.otpExpiresAt >= now
         /\ resp.pre.otpAttempts < MAX_OTP_ATTEMPTS
    /\ (/\ Verified
        /\ resp.pre.otpCode = resp.otp_code
        /\ resp.pre.otpExpiresAt >= now
        /\ resp.pre.otpAttempts < MAX_OTP_ATTEMPTS) => resp.token
    /\ resp.msg \in NoCredentialAnswers => ~resp.token

\* A credential issued on the last allowed attempt, after four wrong codes.
C1_Witness ==
  /\ resp.op = "verify"
  /\ resp.token
  /\ resp.pre.otpAttempts = MAX_OTP_ATTEMPTS - 1

\* C2: every credential is issued for a code that a successful StartLogin
\* (password check passed) stored; ResendOtp and VerifyOtp alone never
\* yield a credential.
C2_CredentialOnlyAfterPassword ==
  (resp.op = "verify" /\ resp.token) => resp.via = "login"

\* C3: after MAX_OTP_ATTEMPTS Mismatch answers against one issued code, the
\* next VerifyOtp answers LockedOut (429) whatever code it carries, issues
\* no credential and leaves otpCode and otpExpiresAt cleared.
C3_MonotonicLockout ==
  (Verified /\ router \in {"part_006", "part_007"}
     /\ resp.run = MAX_OTP_ATTEMPTS) =>
    /\ resp.status = 429
    /\ resp.msg = "LockedOut"
    /\ ~resp.token
    /\ users[resp.username].otpCode = NullCode
    /\ users[resp.username].otpExpiresAt = NullDate

\* C4 as claimed: otpAttempts never exceeds MAX_OTP_ATTEMPTS and no stored
\* account has otpAttempts = MAX_OTP_ATTEMPTS with otpCode still present.
C4_NoCodeAtMaximum ==
  \A a \in Accounts :
    /\ users[a].otpAttempts <= MAX_OTP_ATTEMPTS
    /\ ~(users[a].otpAttempts = MAX_OTP_ATTEMPTS /\ users[a].otpCode # NullCode)

\* C4 as amended: otpAttempts never exceeds MAX_OTP_ATTEMPTS, and a code
\* still stored when otpAttempts has reached the maximum is dead: the
\* VerifyOtp that reads it answers LockedOut and issues no credential.
C4_CodeDeadAtMaximum ==
  /\ \A a \in Accounts : users[a].otpAttempts <= MAX_OTP_ATTEMPTS
  /\ (Verified /\ resp.pre.otpAttempts = MAX_OTP_ATTEMPTS) =>
       (resp.status = 429 /\ resp.msg = "LockedOut" /\ ~resp.token)

\* The correct code submitted against otpAttempts = MAX_OTP_ATTEMPTS while
\* the code is still stored and unexpired.
C4_Witness ==
  /\ Verified
  /\ resp.pre.otpAttempts = MAX_OTP_ATTEMPTS
  /\ resp.pre.otpCode = resp.otp_code
  /\ resp.pre.otpExpiresAt >= now

\* C6: whenever StartLogin or ResendOtp has persisted a new otpCode, the
\* persisted otpAttempts is 0, whatever it was before.
C6_AttemptsResetOnIssue ==
  (resp.op \in {"login", "resend"} /\ resp.saved) =>
    /\ users[resp.username].otpCode # NullCode
    /\ users[resp.username].otpAttempts = 0

\* A code issued over a counter that stood at 3.
C6_Witness ==
  /\ resp.op \in {"login", "resend"}
  /\ resp.saved
  /\ resp.pre.otpAttempts = 3

\* C8: a VerifyOtp that directly follows a successful VerifyOtp and carries
\* the same code answers NoActiveCode (401) without a credential; otpCode
\* and otpExpiresAt are absent and otpAttempts is 0.
C8_SuccessClearsState ==
  (Verified /\ router \in {"part_006", "part_007"}
     /\ resp.lastOk # NullCode /\ resp.otp_code = resp.lastOk) =>
    /\ resp.status = 401
    /\ resp.msg = "NoActiveCode"
    /\ ~resp.token
    /\ resp.pre.otpCode = NullCode
    /\ resp.pre.otpExpiresAt = NullDate
    /\ resp.pre.otpAttempts = 0

\* C9: the correct code, on an account that is not locked out, is answered
\* Expired at every now > otpExpiresAt and accepted at every
\* now <= otpExpiresAt.
C9_ExpiryBoundary ==
  (Verified /\ resp.pre.otpCode = resp.otp_code
     /\ resp.pre.otpAttempts < MAX_OTP_ATTEMPTS) =>
    /\ now > resp.pre.otpExpiresAt =>
         (resp.msg = "Expired" /\ resp.status = 401 /\ ~resp.token)
    /\ now <= resp.pre.otpExpiresAt => (resp.token /\ resp.status = 200)

\* The correct code one tick after otpExpiresAt.
C9_Witness ==
  /\ Verified
  /\ resp.pre.otpCode = resp.otp_code
  /\ resp.pre.otpAttempts < MAX_OTP_ATTEMPTS
  /\ now = resp.pre.otpExpiresAt + 1

\* C10: a Mismatch that is the k-th against the stored code, k below
\* MAX_OTP_ATTEMPTS, leaves the same otpCode and otpExpiresAt stored with
\* otpAttempts = k, and the correct code submitted after k such answers,
\* before expiry, is accepted with a credential.
C10_WrongCodeKeepsLoginAlive ==
  (Verified /\ router \in {"part_006", "part_007"}) =>
    /\ (resp.msg = "Mismatch" /\ run[resp.username] < MAX_OTP_ATTEMPTS) =>
         /\ users[resp.username].otpCode = resp.pre.otpCode
         /\ users[resp.username].otpCode # NullCode
         /\ users[resp.username].otpExpiresAt = resp.pre.otpExpiresAt
         /\ users[resp.username].otpAttempts = run[resp.username]
    /\ (/\ resp.run \in 1 .. (MAX_OTP_ATTEMPTS - 1)
        /\ resp.otp_code = resp.pre.otpCode
        /\ now <= resp.pre.otpExpiresAt) =>
         (resp.token /\ resp.status = 200)

\* The correct code accepted after four Mismatch answers.
C10_Witness ==
  /\ Verified
  /\ router = "part_006"
  /\ resp.run = MAX_OTP_ATTEMPTS - 1
  /\ resp.otp_code = resp.pre.otpCode
  /\ resp.token

C7_MintBeforeClear ==
  (resp.op = "verify" /\ resp.token) => (resp.matched /\ ~resp.saved)

\* C7 as amended: the credential is minted after the match and after the
\* handler's clearing save has been persisted (match, clear, mint).
C7_ClearBeforeMint ==
  (resp.op = "verify" /\ resp.token) => (resp.matched /\ resp.saved)

\* A credential has just been minted.
C7_Witness == resp.op = "verify" /\ resp.token /\ resp.matched /\ resp.saved

\* C11: in part_006 and part_007 a ResendOtp for a stored account, whatever
\* its OTP state (locked out, expired, cleared or active), answers 200 unless
\* a collaborator fails, and once its save is stored the account holds the
\* fresh code with otpExpiresAt = now + OTP_EXPIRY_MINUTES and
\* otpAttempts = 0, so that VerifyOtp with that code succeeds at every time
\* up to otpExpiresAt.
C11_ResendSupersedesLockout ==
  (resp.op = "resend" /\ resp.found /\ router \in {"part_006", "part_007"}) =>
    /\ resp.status # 500 => (resp.status = 200 /\ resp.saved)
    /\ resp.saved =>
         /\ resp.issued # NullCode
         /\ users[resp.username].otpCode = resp.issued
         /\ users[resp.username].otpExpiresAt = now + OTP_EXPIRY_MINUTES
         /\ users[resp.username].otpAttempts = 0
         /\ \A t \in now .. (now + OTP_EXPIRY_MINUTES) :
              VerifyOtpDecide(router, users[resp.username], resp.issued, t).token

\* A ResendOtp answered 200 on a locked-out account.
C11_Witness ==
  /\ resp.op = "resend"
  /\ resp.status = 200
  /\ resp.pre.otpAttempts = MAX_OTP_ATTEMPTS

\* C12 as claimed: a ResendOtp that follows a ResendOtp whose code is still
\* stored leaves its own code stored with otpAttempts = 0, and the first
\* call's code is no longer accepted by VerifyOtp.
C12_SecondResendReplaces ==
  (resp.op = "resend" /\ resp.status = 200 /\ resp.via = "resend"
     /\ resp.pre.otpCode # NullCode) =>
    /\ users[resp.username].otpCode = resp.issued
    /\ users[resp.username].otpAttempts = 0
    /\ \A t \in now .. MaxTime :
         ~VerifyOtpDecide(router, users[resp.username], resp.pre.otpCode, t).token

\* C12 as amended: the second call's code is stored with otpAttempts = 0,
\* and the first call's code is no longer accepted unless generateOtp drew
\* the same code again, in which case it is the stored code and is accepted.
C12_SecondResendReplacesUnlessRedrawn ==
  (resp.op = "resend" /\ resp.status = 200 /\ resp.via = "resend"
     /\ resp.pre.otpCode # NullCode) =>
    /\ users[resp.username].otpCode = resp.issued
    /\ users[resp.username].otpAttempts = 0
    /\ resp.pre.otpCode # resp.issued =>
         \A t \in now .. MaxTime :
           ~VerifyOtpDecide(router, users[resp.username], resp.pre.otpCode, t).token
    /\ resp.pre.otpCode = resp.issued =>
         VerifyOtpDecide(router, users[resp.username], resp.pre.otpCode, now).token

\* A second ResendOtp with a different code over a first one's code that had
\* collected two wrong attempts.
C12_Witness ==
  /\ resp.op = "resend"
  /\ resp.status = 200
  /\ resp.via = "resend"
  /\ resp.pre.otpCode # NullCode
  /\ resp.pre.otpCode # resp.issued
  /\ resp.pre.otpAttempts = 2

\* C13: once StartLogin or ResendOtp has persisted the OTP fields, the
\* request answers 200 whether the notifier succeeds or fails.
C13_NotifierFailureNotSurfaced ==
  (resp.op \in {"login", "resend"} /\ resp.saved) => resp.status = 200

\* C14: StartLogin with an unknown identifier and StartLogin with a known
\* identifier and a wrong password get the same answer (400, same message),
\* change no account and reach neither the save nor the notifier.
C14_InvalidCredentialsUniform ==
  [][\A u \in Usernames, p \in Passwords, k \in RandomDraws :
       (/\ StartLogin(u, p, k, "none")
        /\ (~Found(u) \/ ~Compare(p, FindOne(u).password))) =>
         /\ resp'.status = 400
         /\ resp'.msg = "InvalidCredentials"
         /\ ~resp'.saved
         /\ resp'.issued = NullCode
         /\ users' = users]_vars

\* A wrong password answered while a code is active for the account.
C14_Witness ==
  /\ resp.op = "login"
  /\ resp.found
  /\ resp.status = 400
  /\ resp.pre.otpCode # NullCode

\* C15: whenever StartLogin, VerifyOtp or ResendOtp answers 500, the stored
\* OTP fields of the account are what they were before the request and no
\* credential has been issued.
C15_FailSafeOn500 ==
  (resp.op \in {"login", "verify", "resend"} /\ resp.found /\ resp.status = 500) =>
    /\ users[resp.username] = resp.pre
    /\ ~resp.token

\* C16: VerifyOtp issues a credential only for an account whose role is
\* "admin".
C16_OnlyAdminCompletesLogin ==
  (resp.op = "verify" /\ resp.token) => resp.pre.role = "admin"

\* C18: no interleaving of same-account requests issues a credential that no
\* serial order would issue: a stored code yields at most one credential.
C18_NoCredentialBeyondSerial ==
  \A a \in Accounts : minted[a] <= 1

\* C19: every StartLogin, VerifyOtp and ResendOtp request in flight is
\* eventually answered, even if the notifier never completes.
C19_EveryRequestAnswers ==
  (reqs # EmptyBag) ~> (reqs = EmptyBag)

\* C17: the auth middleware calls next() exactly when the x-auth-token
\* header carries a token that verifies, is unexpired and has role "admin";
\* a missing, invalid or expired token gets 401, a valid non-admin token
\* 403, and exactly one of respond and next() happens.
C17_AuthPassesOnlyAdmin ==
  resp.op = "auth" =>
    LET h == resp.header
        valid == h.kind = "jwt" /\ h.secret = "JWT_SECRET" /\ now < h.exp
    IN /\ resp.next <=> (valid /\ h.role = "admin")
       /\ ~valid => (resp.status = 401 /\ resp.responded)
       /\ (valid /\ h.role # "admin") => (resp.status = 403 /\ resp.responded)
       /\ resp.next <=> ~resp.responded

\* A token signed with JWT_SECRET, unexpired, with role "user".
C17_Witness ==
  /\ resp.op = "auth"
  /\ resp.header.kind = "jwt"
  /\ resp.header.secret = "JWT_SECRET"
  /\ now < resp.header.exp
  /\ resp.header.role = "user"

\* C20: no request lacking a valid admin token changes a stored content
\* document.
C20_ContentWritesNeedAdmin ==
  (resp.op = "content" /\ resp.changed) => resp.admin

\* C21: after a successful StartLogin (part_006, part_007) the persisted
\* otpCode is the generated code, a string of 6 decimal digits between
\* 100000 and 999999, otpExpiresAt is now + OTP_EXPIRY_MINUTES and
\* otpAttempts is 0, the three written by one save; the response body
\* carries the identifier and has no field for the code.
C21_LoginIssuesFreshCode ==
  (router # "authLogin2FA" /\ resp.op = "login" /\ resp.status = 200) =>
    LET u == users[resp.username]
        body == LoginResponse(resp.username)
    IN /\ resp.saved
       /\ u.otpCode = resp.issued
       /\ Len(u.otpCode) = 6
       /\ u.otpCode[1] \in 1..9
       /\ \A i \in 1..6 : u.otpCode[i] \in 0..9
       /\ u.otpExpiresAt = now + OTP_EXPIRY_MINUTES
       /\ u.otpAttempts = 0
       /\ \A k \in RandomDraws :
            IssueOtp(router, resp.pre, k, now).paths = OtpPaths
       /\ body.sessionData.username = resp.username
       /\ DOMAIN body = {"message", "otpSent", "sessionData"}
       /\ DOMAIN body.sessionData = {"username"}

\* A login that succeeds after failed attempts were counted, at a time
\* other than 0.
C21_Witness ==
  /\ router = "part_006"
  /\ resp.op = "login"
  /\ resp.status = 200
  /\ resp.pre.otpAttempts > 0
  /\ now > 0
  /\ users[resp.username].otpCode = generateOtp(1)

\* C22: in part_006 and authLogin2FARoutes.js a Mismatch answer of VerifyOtp
\* leaves the stored otpAttempts exactly one above what the handler read and
\* leaves otpCode and otpExpiresAt as they were; no other answer of any
\* operation leaves otpAttempts above what the handler read.
C22_MismatchCountsOne ==
  (router \in {"part_006", "authLogin2FA"} /\ resp.op \in {"login", "verify", "resend"}
     /\ resp.found) =>
    LET u == users[resp.username]
    IN IF resp.msg = "Mismatch"
       THEN /\ u.otpAttempts = resp.pre.otpAttempts + 1
            /\ u.otpCode = resp.pre.otpCode
            /\ u.otpExpiresAt = resp.pre.otpExpiresAt
       ELSE u.otpAttempts <= resp.pre.otpAttempts

\* C23: in part_006 and authLogin2FARoutes.js VerifyOtp answers with the
\* first failing check of the order NotFound, LockedOut, NoActiveCode,
\* Expired, Mismatch; a wrong code against an expired code is answered
\* Expired, clears the code and counts no attempt, and a locked-out account
\* is answered LockedOut whatever the expiry is.
C23_FirstFailingCheckWins ==
  (router \in {"part_006", "authLogin2FA"} /\ resp.op = "verify"
     /\ IsLength6(resp.otp_code) /\ resp.status \notin {0, 500}) =>
    LET p == resp.pre
        locked == p.otpAttempts >= MAX_OTP_ATTEMPTS
        nocode == Falsy(p.otpCode) \/ NoDate(p.otpExpiresAt)
        expired == ~nocode /\ DateBefore(p.otpExpiresAt, now)
    IN /\ resp.msg = IF ~resp.found THEN "NotFound"
                     ELSE IF locked THEN "LockedOut"
                     ELSE IF nocode THEN "NoActiveCode"
                     ELSE IF expired THEN "Expired"
                     ELSE IF ~resp.matched THEN "Mismatch"
                     ELSE "Success"
       /\ (resp.found /\ ~locked /\ expired /\ ~resp.matched) =>
            /\ users[resp.username].otpCode = NullCode
            /\ users[resp.username].otpExpiresAt = NullDate
            /\ users[resp.username].otpAttempts = p.otpAttempts

\* C24: in part_006 and part_007 lockout is sticky.  The LockedOut answer
\* leaves otpCode and otpExpiresAt cleared and otpAttempts as it was; a
\* VerifyOtp that reads otpAttempts >= MAX_OTP_ATTEMPTS answers LockedOut;
\* and otpAttempts leaves the maximum only by the save of a StartLogin or a
\* ResendOtp.
C24_LockoutSticky ==
  /\ []((Verified /\ router \in {"part_006", "part_007"}) =>
          /\ (resp.pre.otpAttempts >= MAX_OTP_ATTEMPTS) => resp.msg = "LockedOut"
          /\ (resp.msg = "LockedOut") =>
               /\ users[resp.username].otpCode = NullCode
               /\ users[resp.username].otpExpiresAt = NullDate
               /\ users[resp.username].otpAttempts = resp.pre.otpAttempts)
  /\ [][\A a \in Accounts :
          (router \in {"part_006", "part_007"}
             /\ users[a].otpAttempts >= MAX_OTP_ATTEMPTS
             /\ users'[a].otpAttempts < MAX_OTP_ATTEMPTS) =>
            (resp'.op \in {"login", "resend"} /\ resp'.saved
               /\ resp'.issued # NullCode)]_vars

\* C25: in part_006 and authLogin2FARoutes.js, under every interleaving of
\* concurrent VerifyOtp requests, a credential answered for an account is
\* the only one answered for the otpCode now issued to it.
C25_OneCredentialPerCode ==
  (router \in {"part_006", "authLogin2FA"} /\ resp.op = "verify" /\ resp.token) =>
    minted[resp.username] <= 1

\* C26: in part_006 and part_007, under every interleaving of concurrent
\* VerifyOtp requests, at most MAX_OTP_ATTEMPTS Mismatch answers are given
\* against one issued code.
C26_MismatchBudget ==
  router \in {"part_006", "part_007"} =>
    \A a \in Accounts : run[a] <= MAX_OTP_ATTEMPTS

\* C27: after any sequence of Project saves, sequential or concurrent, no
\* two stored projects have the same non-empty slug; a save makes at most 6
\* existence checks, and the candidate it checks is the slug or the slug, a
\* dash and a suffix of at most 4 base-36 digits.
C27_SlugsUnique ==
  /\ \A s \in BagToSet(projects) : s # <<>> => CopiesIn(s, projects) <= 1
  /\ \A r \in BagToSet(reqs) :
       /\ r.checks <= 6
       /\ \/ r.candidate = r.slug
          \/ \E k \in RandomDraws : r.candidate = r.slug \o <<"-">> \o Suffix(k)
  /\ resp.op = "project" => resp.checks <= 6

\* C28: contact intake is persist-then-notify: a request whose document was
\* persisted is answered 201 whether the email and the WhatsApp
\* notification succeed or fail, and 500 is answered only when nothing was
\* persisted.
C28_PersistedMeans201 ==
  resp.op = "intake" =>
    /\ resp.persisted => resp.status = 201
    /\ resp.status = 500 => ~resp.persisted

\* C29: database connection recovery.  A request that enters the
\* middleware after a connection attempt has failed, with no connection
\* and no attempt in flight, starts a new attempt; a request that enters
\* while an attempt is in flight starts none; and no request is refused
\* once a connection is established.
C29_ConnectRecovers ==
  /\ [][(cached.server # "none"
           /\ BagCardinality(reqs') = BagCardinality(reqs) + 1) =>
          IF cached.inflight > 0
          THEN cached'.attempts = cached.attempts
          ELSE cached.failed => cached'.attempts = cached.attempts + 1]_vars
  /\ []((resp.op = "request" /\ (cached.conn \/ cached.isConnected)) =>
          resp.status = 200)

\* C30 as claimed: a PUT by an admin on a stored milestone with a key in
\* the body is answered 400 and leaves key, label and count as they were,
\* and no PUT changes the key.
C30_KeyInBodyRejected ==
  (resp.op = "milestone" /\ resp.method = "put" /\ resp.admin
     /\ resp.pre.exists) =>
    /\ resp.key # Undefined =>
         (resp.status = 400 /\ milestones[resp.id] = resp.pre)
    /\ milestones[resp.id].key = resp.pre.key

\* C30 as amended: a PUT by an admin on a stored milestone with a
\* non-empty key in the body is answered 400 and leaves key, label and
\* count as they were, and no PUT, accepted or not, changes the key or
\* removes the milestone.
C30_NonEmptyKeyRejected ==
  (resp.op = "milestone" /\ resp.method = "put") =>
    /\ (resp.admin /\ resp.pre.exists /\ Truthy(resp.key)) =>
         (resp.status = 400 /\ milestones[resp.id] = resp.pre)
    /\ milestones[resp.id].key = resp.pre.key
    /\ milestones[resp.id].exists = resp.pre.exists

\* An admin's PUT on a stored milestone whose body names another key.
C30_Witness ==
  /\ resp.op = "milestone"
  /\ resp.method = "put"
  /\ resp.admin
  /\ resp.pre.exists
  /\ Truthy(resp.key)
  /\ resp.key # resp.pre.key
  /\ resp.status = 400

====
